---- MODULE Spec2Model ----
(***************************************************************************)
(* kube-webhook-certgen: the create and patch commands, the K8s helper     *)
(* (secret store adapter and webhook/APIService patcher) and the cluster   *)
(* objects they read and write.                                            *)
(*                                                                         *)
(* Every cluster call (Get, Create, Update, Apply) is one step; the local  *)
(* computation between two calls belongs to the step of the earlier call.  *)
(* A cluster call may fail (transport/API error) by nondeterministic       *)
(* choice.  The API server is modelled by its documented contract: Create  *)
(* fails on an existing object, Update replaces the whole object, Apply    *)
(* merges the asserted fields into the entries that carry the same name.   *)
(* Byte slices are tuples; the nil slice is the empty tuple.               *)
(***************************************************************************)
EXTENDS Integers, Sequences, FiniteSets, TLC

VARIABLES secrets, vwc, mwc, apisvc, stored, runs,
          pc, cfg, opts, loc, calls, result, branch, pre

cluster == <<secrets, vwc, mwc, apisvc>>
procvars == <<pc, cfg, opts, loc, calls, result, branch, pre>>
vars == <<secrets, vwc, mwc, apisvc, stored, runs,
          pc, cfg, opts, loc, calls, result, branch, pre>>

----------------------------------------------------------------------------
(* Bounds *)

\* number of command invocations in one behaviour
MaxRuns == 2

----------------------------------------------------------------------------
(* Values *)

Procs == {1, 2}

Nil == <<>>
NoErr == "nil"
ErrNoSecret == "no secret found"

OldCA == <<"ca", 0>>

Namespaces == {"n"}
SecretNames == {"s", "t"}
WebhookNames == {"", "w"}
ObjectNames == {"", "w", "x"}
APIServiceNames == {"", "a"}
FailurePolicyFlags == {"", "Ignore", "Fail", "Never"}
FailurePolicyTypes == {"", "Ignore", "Fail"}
PatchMethods == {"patch", "update", "replace"}
CertNames == {"cert", "ca.crt"}
CaNames == {"ca", "ca.crt"}
KeyNames == {"key"}
SecretTypes == {"Opaque"}

IdleCfg == [cmd |-> "none"]
NoOpts == [set |-> FALSE]
NoLoc == <<>>

Running == [status |-> "running", msg |-> "", cause |-> ""]
Ok == [status |-> "ok", msg |-> "", cause |-> ""]
Err(msg, cause) == [status |-> "err", msg |-> msg, cause |-> cause]
IsErr(r) == r.status = "err"

----------------------------------------------------------------------------
(* Go maps of byte slices *)

EmptyMap == [x \in {} |-> Nil]

MapGet(m, k) == IF k \in DOMAIN m THEN m[k] ELSE Nil

MapPut(m, k, v) == [x \in (DOMAIN m) \cup {k} |-> IF x = k THEN v ELSE m[x]]

Call(kind, verb, name) == [kind |-> kind, verb |-> verb, name |-> name]

----------------------------------------------------------------------------
(* Cluster objects *)

Webhook(name, ca, policy) ==
    [Name |-> name, CABundle |-> ca, FailurePolicy |-> policy, SideEffects |-> "None"]

SecretKey(namespace, name) == <<namespace, name>>

\* A secret this tool wrote in an earlier run, one an older release wrote
\* (CA under the key "ca"), or none.
InitialSecrets ==
    { EmptyMap,
      [k \in {SecretKey("n", "s")} |->
          [Type |-> "Opaque",
           Data |-> MapPut(MapPut(MapPut(EmptyMap, "ca.crt", OldCA), "cert", <<"cert", 0>>), "key", <<"key", 0>>)]],
      [k \in {SecretKey("n", "s")} |->
          [Type |-> "Opaque",
           Data |-> MapPut(MapPut(MapPut(EmptyMap, "ca", OldCA), "cert", <<"cert", 0>>), "key", <<"key", 0>>)]] }

InitialValidating ==
    [n \in {"w"} |-> <<Webhook("v1", OldCA, "Ignore"), Webhook("v2", Nil, "Fail")>>]

InitialMutating ==
    [n \in {"w"} |-> <<Webhook("m1", Nil, "Fail"), Webhook("m2", OldCA, "Ignore")>>]

InitialAPIServices ==
    [n \in {"a", "b"} |->
        IF n = "a"
        THEN [CABundle |-> Nil, InsecureSkipTLSVerify |-> TRUE, Service |-> "svc"]
        ELSE [CABundle |-> OldCA, InsecureSkipTLSVerify |-> TRUE, Service |-> "other"]]

----------------------------------------------------------------------------
(* pkg/certs *)

\* A host list is a string: a sequence of characters. Over this alphabet
\* the host names are the runs of "h", and the one IP literal is "::".
Chars == {"h", ":", ","}

MaxHostLen == 4

HostLists == UNION {[1 .. n -> Chars] : n \in 0 .. MaxHostLen}

\* strings.SplitSeq(s, sep): the pieces between the separators, in order;
\* a string without separator is its own single piece, the empty one too.
RECURSIVE SplitSeq(_, _)
SplitSeq(s, sep) ==
    IF \A i \in 1 .. Len(s) : s[i] # sep
    THEN <<s>>
    ELSE LET i == CHOOSE k \in 1 .. Len(s) : s[k] = sep /\ \A j \in 1 .. (k - 1) : s[j] # sep
         IN  <<SubSeq(s, 1, i - 1)>> \o SplitSeq(SubSeq(s, i + 1, Len(s)), sep)

\* net.ParseIP: nil unless the string is an IP literal. No IPv4 literal can
\* be written with Chars, and "::" is the only IPv6 literal that can.
ParseIP(host) ==
    IF host = <<":", ":">> THEN [ok |-> TRUE, ip |-> host] ELSE [ok |-> FALSE]

IsIP(host) == ParseIP(host).ok

IsName(host) == ~IsIP(host)

\* ecdsa.GenerateKey: the n-th key drawn by call g.
GenerateKey(g, n) == [D |-> <<g, n>>, PublicKey |-> <<g, n>>]

rootTemplate(serialNumber) ==
    [SerialNumber |-> serialNumber,
     KeyUsage |-> {"CertSign"},
     ExtKeyUsage |-> {"ServerAuth"},
     BasicConstraintsValid |-> TRUE,
     IsCA |-> TRUE,
     Subject |-> "nil1",
     DNSNames |-> <<>>,
     IPAddresses |-> <<>>]

nonEmpty(host) == host # <<>>

\* Mutant: an empty token is skipped.
leafTemplateSkipEmpty(serialNumber, hosts) ==
    [SerialNumber |-> serialNumber,
     KeyUsage |-> {"DigitalSignature", "KeyEncipherment"},
     ExtKeyUsage |-> {"ServerAuth"},
     BasicConstraintsValid |-> TRUE,
     IsCA |-> FALSE,
     Subject |-> "nil2",
     DNSNames |-> SelectSeq(SelectSeq(SplitSeq(hosts, ","), IsName), nonEmpty),
     IPAddresses |-> SelectSeq(SplitSeq(hosts, ","), IsIP)]

\* The loop over the tokens: an IP literal goes to IPAddresses, every other
\* token to DNSNames.
leafTemplate(serialNumber, hosts) ==
    [SerialNumber |-> serialNumber,
     KeyUsage |-> {"DigitalSignature", "KeyEncipherment"},
     ExtKeyUsage |-> {"ServerAuth"},
     BasicConstraintsValid |-> TRUE,
     IsCA |-> FALSE,
     Subject |-> "nil2",
     DNSNames |-> SelectSeq(SplitSeq(hosts, ","), IsName),
     IPAddresses |-> SelectSeq(SplitSeq(hosts, ","), IsIP)]

\* x509.CreateCertificate(rand, template, parent, pub, priv): the template
\* with the parent's subject as issuer, the public key pub, signed with priv.
CreateCertificate(template, parent, pub, priv) ==
    [SerialNumber |-> template.SerialNumber,
     KeyUsage |-> template.KeyUsage,
     ExtKeyUsage |-> template.ExtKeyUsage,
     BasicConstraintsValid |-> template.BasicConstraintsValid,
     IsCA |-> template.IsCA,
     Subject |-> template.Subject,
     DNSNames |-> template.DNSNames,
     IPAddresses |-> template.IPAddresses,
     Issuer |-> parent.Subject,
     PublicKey |-> pub,
     Signature |-> priv.PublicKey]

\* PEM blocks: the type and the bytes.
encodeKey(key) == <<"EC PRIVATE KEY", key>>

encodeCert(derBytes) == <<"CERTIFICATE", derBytes>>

pemDecode(block) == block[2]

\* The fallible steps of GenerateCerts, in source order; 0 is "none fails".
GenerateFailPoints == 0 .. 7

GenerateError(failAt) ==
    CASE failAt = 1 -> "failed to generate serial number"
      [] failAt = 2 -> "failed scdsa.GenerateKey"
      [] failAt = 3 -> "failed createCertificate for Ca"
      [] failAt = 4 -> "failed createLeafKey for certificate"
      [] failAt = 5 -> "failed encodeLeafKey for certificate"
      [] failAt = 6 -> "failed to generate serial number"
      [] OTHER -> "failed createLeaf certificate"

\* Mutant: the leaf certificate is signed with its own key.
GenerateCertsLeafSelfSigned(hosts, g, failAt) ==
    LET rootKey == GenerateKey(g, 1)
        leafKey == GenerateKey(g, 2)
        root == rootTemplate(<<g, 1>>)
        leaf == leafTemplate(<<g, 2>>, hosts)
    IN  IF failAt # 0
        THEN [ca |-> Nil, cert |-> Nil, key |-> Nil, err |-> GenerateError(failAt)]
        ELSE [ca |-> encodeCert(CreateCertificate(root, root, rootKey.PublicKey, rootKey)),
              cert |-> encodeCert(CreateCertificate(leaf, root, leafKey.PublicKey, leafKey)),
              key |-> encodeKey(leafKey),
              err |-> NoErr]

\* Mutant: a failure after the CA was made returns the CA with the error.
GenerateCertsPartial(hosts, g, failAt) ==
    LET rootKey == GenerateKey(g, 1)
        leafKey == GenerateKey(g, 2)
        root == rootTemplate(<<g, 1>>)
        leaf == leafTemplate(<<g, 2>>, hosts)
    IN  IF failAt # 0
        THEN [ca |-> IF failAt > 3
                     THEN encodeCert(CreateCertificate(root, root, rootKey.PublicKey, rootKey))
                     ELSE Nil,
              cert |-> Nil, key |-> Nil, err |-> GenerateError(failAt)]
        ELSE [ca |-> encodeCert(CreateCertificate(root, root, rootKey.PublicKey, rootKey)),
              cert |-> encodeCert(CreateCertificate(leaf, root, leafKey.PublicKey, rootKey)),
              key |-> encodeKey(leafKey),
              err |-> NoErr]

\* g stands for the randomness drawn: distinct calls give distinct material.
\* Every error return is nil, nil, nil, err.
GenerateCerts(hosts, g, failAt) ==
    LET rootKey == GenerateKey(g, 1)
        leafKey == GenerateKey(g, 2)
        root == rootTemplate(<<g, 1>>)
        leaf == leafTemplate(<<g, 2>>, hosts)
    IN  IF failAt # 0
        THEN [ca |-> Nil, cert |-> Nil, key |-> Nil, err |-> GenerateError(failAt)]
        ELSE [ca |-> encodeCert(CreateCertificate(root, root, rootKey.PublicKey, rootKey)),
              cert |-> encodeCert(CreateCertificate(leaf, root, leafKey.PublicKey, rootKey)),
              key |-> encodeKey(leafKey),
              err |-> NoErr]

----------------------------------------------------------------------------
(* pkg/k8s: secret store adapter *)

\* Mutant: the CA is looked up under "ca", the key an older release used.
GetCaFromSecretKeyCa(store, secretName, namespace, fail) ==
    IF fail
    THEN [data |-> Nil, err |-> "error getting secret"]
    ELSE IF SecretKey(namespace, secretName) \notin DOMAIN store
    THEN [data |-> Nil, err |-> ErrNoSecret]
    ELSE LET data == MapGet(store[SecretKey(namespace, secretName)].Data, "ca")
         IN  IF data = Nil
             THEN [data |-> Nil, err |-> "got secret, but it did not contain a 'ca.crt' key"]
             ELSE [data |-> data, err |-> NoErr]

\* Mutant: a secret without the field is reported like a missing secret.
GetCaFromSecretLackIsMissing(store, secretName, namespace, fail) ==
    IF fail
    THEN [data |-> Nil, err |-> "error getting secret"]
    ELSE IF SecretKey(namespace, secretName) \notin DOMAIN store
    THEN [data |-> Nil, err |-> ErrNoSecret]
    ELSE LET data == MapGet(store[SecretKey(namespace, secretName)].Data, "ca.crt")
         IN  IF data = Nil
             THEN [data |-> Nil, err |-> ErrNoSecret]
             ELSE [data |-> data, err |-> NoErr]

GetCaFromSecret(store, secretName, namespace, fail) ==
    IF fail
    THEN [data |-> Nil, err |-> "error getting secret"]
    ELSE IF SecretKey(namespace, secretName) \notin DOMAIN store
    THEN [data |-> Nil, err |-> ErrNoSecret]
    ELSE LET data == MapGet(store[SecretKey(namespace, secretName)].Data, "ca.crt")
         IN  IF data = Nil
             THEN [data |-> Nil, err |-> "got secret, but it did not contain a 'ca.crt' key"]
             ELSE [data |-> data, err |-> NoErr]

NoFieldError(caName) ==
    IF caName = "ca.crt"
    THEN "got secret, but it did not contain a 'ca.crt' key"
    ELSE "got secret, but it did not contain a 'ca' key"

\* The lookup of the Patcher interface of cmd/patch.go, which takes the name
\* of the CA field: the bytes of that field, the "not found" signal for a
\* missing secret, and an error for a secret without the field.
GetCaFromSecretNamed(store, caName, secretName, namespace, fail) ==
    IF fail
    THEN [data |-> Nil, err |-> "error getting secret"]
    ELSE IF SecretKey(namespace, secretName) \notin DOMAIN store
    THEN [data |-> Nil, err |-> ErrNoSecret]
    ELSE LET data == MapGet(store[SecretKey(namespace, secretName)].Data, caName)
         IN  IF data = Nil
             THEN [data |-> Nil, err |-> NoFieldError(caName)]
             ELSE [data |-> data, err |-> NoErr]

\* The Secret object SaveCertsToSecret builds; a later key of the map literal
\* replaces an earlier equal one.
NewSecret(secretType, certName, keyName, ca, cert, key) ==
    [Type |-> secretType,
     Data |-> MapPut(MapPut(MapPut(EmptyMap, "ca.crt", ca), certName, cert), keyName, key)]

\* Mutant: an existing secret is passed over without an error.
SaveCertsToSecretExistsIsOk(store, secretName, secretType, namespace, certName, keyName, ca, cert, key, fail) ==
    IF fail
    THEN [store |-> store, err |-> "error creating secret"]
    ELSE IF SecretKey(namespace, secretName) \in DOMAIN store
    THEN [store |-> store, err |-> NoErr]
    ELSE [store |-> [k \in (DOMAIN store) \cup {SecretKey(namespace, secretName)} |->
                        IF k = SecretKey(namespace, secretName)
                        THEN NewSecret(secretType, certName, keyName, ca, cert, key)
                        ELSE store[k]],
          err |-> NoErr]

\* Mutant: the secret is written with upsert semantics.
SaveCertsToSecretUpsert(store, secretName, secretType, namespace, certName, keyName, ca, cert, key, fail) ==
    IF fail
    THEN [store |-> store, err |-> "error creating secret"]
    ELSE [store |-> [k \in (DOMAIN store) \cup {SecretKey(namespace, secretName)} |->
                        IF k = SecretKey(namespace, secretName)
                        THEN NewSecret(secretType, certName, keyName, ca, cert, key)
                        ELSE store[k]],
          err |-> NoErr]

\* Mutant: on an existing secret the certificate and the key entries are
\* replaced and the CA entry is kept.
SaveCertsToSecretReplaceLeaf(store, secretName, secretType, namespace, certName, keyName, ca, cert, key, fail) ==
    IF fail
    THEN [store |-> store, err |-> "error creating secret"]
    ELSE [store |-> [k \in (DOMAIN store) \cup {SecretKey(namespace, secretName)} |->
                        IF k # SecretKey(namespace, secretName)
                        THEN store[k]
                        ELSE IF k \in DOMAIN store
                        THEN [store[k] EXCEPT !.Data = MapPut(MapPut(@, certName, cert), keyName, key)]
                        ELSE NewSecret(secretType, certName, keyName, ca, cert, key)],
          err |-> NoErr]

\* Secrets(namespace).Create: refused when the object exists.
SaveCertsToSecret(store, secretName, secretType, namespace, certName, keyName, ca, cert, key, fail) ==
    IF fail \/ SecretKey(namespace, secretName) \in DOMAIN store
    THEN [store |-> store, err |-> "error creating secret"]
    ELSE [store |-> [k \in (DOMAIN store) \cup {SecretKey(namespace, secretName)} |->
                        IF k = SecretKey(namespace, secretName)
                        THEN NewSecret(secretType, certName, keyName, ca, cert, key)
                        ELSE store[k]],
          err |-> NoErr]

----------------------------------------------------------------------------
(* pkg/k8s: patcher, the pure parts *)

\* Mutant: the failure policy check is missing.
validatePatchOptionsNoPolicyCheck(options) ==
    LET hasMutating == options.MutatingWebhookConfigurationName # ""
        hasValidating == options.ValidatingWebhookConfigurationName # ""
    IN  IF options.PatchMethod \notin {"patch", "update"}
        THEN "invalid patch method"
        ELSE IF hasMutating /\ hasValidating
                /\ options.MutatingWebhookConfigurationName # options.ValidatingWebhookConfigurationName
        THEN "mutating and validating webhook names must be the same"
        ELSE NoErr

\* Mutant: the name check is missing.
validatePatchOptionsNoNameCheck(options) ==
    LET hasMutating == options.MutatingWebhookConfigurationName # ""
        hasValidating == options.ValidatingWebhookConfigurationName # ""
        hasFailurePolicy == options.FailurePolicyType # ""
    IN  IF options.PatchMethod \notin {"patch", "update"}
        THEN "invalid patch method"
        ELSE IF hasFailurePolicy /\ ~hasMutating /\ ~hasValidating
        THEN "failurePolicy specified, but no webhook will be patched"
        ELSE NoErr

validatePatchOptions(options) ==
    LET hasMutating == options.MutatingWebhookConfigurationName # ""
        hasValidating == options.ValidatingWebhookConfigurationName # ""
        hasFailurePolicy == options.FailurePolicyType # ""
    IN  IF options.PatchMethod \notin {"patch", "update"}
        THEN "invalid patch method"
        ELSE IF hasFailurePolicy /\ ~hasMutating /\ ~hasValidating
        THEN "failurePolicy specified, but no webhook will be patched"
        ELSE IF hasMutating /\ hasValidating
                /\ options.MutatingWebhookConfigurationName # options.ValidatingWebhookConfigurationName
        THEN "mutating and validating webhook names must be the same"
        ELSE NoErr

getWebhookName(options) ==
    IF options.ValidatingWebhookConfigurationName # ""
    THEN options.ValidatingWebhookConfigurationName
    ELSE options.MutatingWebhookConfigurationName

\* Mutant: an empty failure policy is written as the API default.
updateWebhooksDefaultPolicy(hooks, ca, failurePolicy) ==
    [i \in 1 .. Len(hooks) |->
        [hooks[i] EXCEPT !.CABundle = ca,
                         !.FailurePolicy = IF failurePolicy # "" THEN failurePolicy ELSE "Fail"]]

\* The loop of updateValidatingWebhook / updateMutatingWebhook over the
\* fetched entries.
updateWebhooks(hooks, ca, failurePolicy) ==
    [i \in 1 .. Len(hooks) |->
        [hooks[i] EXCEPT !.CABundle = ca,
                         !.FailurePolicy = IF failurePolicy # "" THEN failurePolicy ELSE @]]

\* Mutant: the loop stops one entry early.
applyConfigurationShort(hooks, ca, failurePolicy) ==
    [i \in 1 .. (Len(hooks) - 1) |->
        [Name |-> hooks[i].Name, CABundle |-> ca,
         FailurePolicy |-> IF failurePolicy # "" THEN failurePolicy ELSE ""]]

\* The apply configuration applyValidatingWebhook / applyMutatingWebhook
\* builds from the fetched entries; FailurePolicy "" is the nil pointer.
applyConfiguration(hooks, ca, failurePolicy) ==
    [i \in 1 .. Len(hooks) |->
        [Name |-> hooks[i].Name, CABundle |-> ca,
         FailurePolicy |-> IF failurePolicy # "" THEN failurePolicy ELSE ""]]

\* Server-side apply with Force: the webhooks list is keyed by name; the
\* asserted fields of an entry replace the stored ones, everything else stays.
ApplyAccepted(current, applyConfig) ==
    \A i \in 1 .. Len(applyConfig) :
        \E j \in 1 .. Len(current) : current[j].Name = applyConfig[i].Name

\* Mutant: the applied list replaces the stored one; what it does not assert
\* is lost.
ApplyMergeAtomic(current, applyConfig) ==
    [i \in 1 .. Len(applyConfig) |->
        [Name |-> applyConfig[i].Name, CABundle |-> applyConfig[i].CABundle,
         FailurePolicy |-> applyConfig[i].FailurePolicy, SideEffects |-> ""]]

\* Mutant: the applied entries are appended to the list, not merged by name.
ApplyMergeAppend(current, applyConfig) ==
    current \o [i \in 1 .. Len(applyConfig) |->
                   Webhook(applyConfig[i].Name, applyConfig[i].CABundle, applyConfig[i].FailurePolicy)]

ApplyMerge(current, applyConfig) ==
    [j \in 1 .. Len(current) |->
        IF \E i \in 1 .. Len(applyConfig) : applyConfig[i].Name = current[j].Name
        THEN LET a == applyConfig[CHOOSE i \in 1 .. Len(applyConfig) : applyConfig[i].Name = current[j].Name]
             IN  [current[j] EXCEPT !.CABundle = a.CABundle,
                                    !.FailurePolicy = IF a.FailurePolicy # "" THEN a.FailurePolicy ELSE @]
        ELSE current[j]]

----------------------------------------------------------------------------
(* cmd/patch.go: the pure parts of Patch *)

PatchConfigs ==
    [PatchFailurePolicy : FailurePolicyFlags, APIServiceName : APIServiceNames,
     WebhookName : WebhookNames, SecretName : {"s"}, CaName : {"ca"},
     Namespace : Namespaces, PatchMethod : PatchMethods,
     PatchMutating : BOOLEAN, PatchValidating : BOOLEAN]

PatchOptionsSet ==
    [ValidatingWebhookConfigurationName : ObjectNames,
     MutatingWebhookConfigurationName : WebhookNames,
     APIServiceName : APIServiceNames, PatchMethod : {"patch", "update"},
     FailurePolicyType : FailurePolicyTypes, CABundle : {OldCA}]

CreateConfigs ==
    [host : {<<"h">>}, secretName : SecretNames, secretType : SecretTypes,
     namespace : Namespaces, certName : CertNames, keyName : KeyNames]

\* Mutant: the failure policy flag is not validated.
PatchFlagErrorNoPolicyCheck(c) ==
    IF ~c.PatchMutating /\ ~c.PatchValidating /\ c.APIServiceName = ""
    THEN "patch-validating=false, patch-mutating=false"
    ELSE NoErr

\* Mutant: the no-op check is missing.
PatchFlagErrorNoKindCheck(c) ==
    IF c.PatchFailurePolicy \notin {"", "Ignore", "Fail"}
    THEN "patch-failure-policy is not valid"
    ELSE NoErr

\* The checks Patch makes before it calls the Patcher.
PatchFlagError(c) ==
    IF ~c.PatchMutating /\ ~c.PatchValidating /\ c.APIServiceName = ""
    THEN "patch-validating=false, patch-mutating=false"
    ELSE IF c.PatchFailurePolicy \notin {"", "Ignore", "Fail"}
    THEN "patch-failure-policy is not valid"
    ELSE NoErr

\* The switch on cfg.PatchFailurePolicy: a Go case does not fall through, so
\* only the "Fail" case assigns.
PatchFailurePolicyType(c) ==
    IF c.PatchFailurePolicy = "Fail" THEN c.PatchFailurePolicy ELSE ""

PatchOptionsOf(c, ca) ==
    [CABundle |-> ca,
     FailurePolicyType |-> PatchFailurePolicyType(c),
     APIServiceName |-> c.APIServiceName,
     PatchMethod |-> c.PatchMethod,
     MutatingWebhookConfigurationName |-> IF c.PatchMutating THEN c.WebhookName ELSE "",
     ValidatingWebhookConfigurationName |-> IF c.PatchValidating THEN c.WebhookName ELSE ""]

----------------------------------------------------------------------------
(* Control flow of PatchObjects: the next cluster call, or "ok" *)

\* Mutant: the full-object update is made whatever the patch method.
mutatingEntryAlwaysUpdate(o) ==
    IF o.MutatingWebhookConfigurationName = "" THEN "ok" ELSE "mutUpdateGet"

mutatingEntry(o) ==
    IF o.MutatingWebhookConfigurationName = "" THEN "ok"
    ELSE IF o.PatchMethod = "update" THEN "mutUpdateGet" ELSE "mutApplyGet"

\* Mutant: the mutating configuration is patched first, and alone.
validatingEntryMutatingFirst(o) ==
    IF o.MutatingWebhookConfigurationName # "" \/ o.ValidatingWebhookConfigurationName = ""
    THEN mutatingEntry(o)
    ELSE IF o.PatchMethod = "update" THEN "valUpdateGet" ELSE "valApplyGet"

validatingEntry(o) ==
    IF o.ValidatingWebhookConfigurationName = "" THEN mutatingEntry(o)
    ELSE IF o.PatchMethod = "update" THEN "valUpdateGet" ELSE "valApplyGet"

afterAPIService(o) ==
    IF o.MutatingWebhookConfigurationName # "" \/ o.ValidatingWebhookConfigurationName # ""
    THEN validatingEntry(o)
    ELSE "ok"

firstCall(o) ==
    IF o.APIServiceName # "" THEN "apiGet" ELSE afterAPIService(o)

----------------------------------------------------------------------------
(* Initial state *)

Snapshot ==
    [secrets |-> secrets, vwc |-> vwc, mwc |-> mwc, apisvc |-> apisvc, stored |-> stored]

NoSnapshot == [none |-> TRUE]

Init ==
    /\ secrets \in InitialSecrets
    /\ vwc = InitialValidating
    /\ mwc = InitialMutating
    /\ apisvc = InitialAPIServices
    /\ stored = {}
    /\ runs = 0
    /\ pc = [p \in Procs |-> "idle"]
    /\ cfg = [p \in Procs |-> IdleCfg]
    /\ opts = [p \in Procs |-> NoOpts]
    /\ loc = [p \in Procs |-> NoLoc]
    /\ calls = [p \in Procs |-> <<>>]
    /\ result = [p \in Procs |-> Running]
    /\ branch = [p \in Procs |-> ""]
    /\ pre = [p \in Procs |-> NoSnapshot]

----------------------------------------------------------------------------
(* Steps *)

Finish(p, r) ==
    /\ pc' = [pc EXCEPT ![p] = "done"]
    /\ result' = [result EXCEPT ![p] = r]

Goto(p, label) ==
    /\ pc' = [pc EXCEPT ![p] = label]
    /\ UNCHANGED result

Continue(p, label) ==
    IF label = "ok" THEN Finish(p, Ok) ELSE Goto(p, label)

Record(p, call) == calls' = [calls EXCEPT ![p] = Append(@, call)]

\* Mutant: the error of a failed step is dropped.
PatcherFailSwallowed(p, cmd, msg) ==
    Finish(p, Ok)

\* An error PatchObjects returns; Patch wraps it.
PatcherFail(p, cmd, msg) ==
    Finish(p, IF cmd = "patch" THEN Err("failed to patch objects", msg) ELSE Err(msg, msg))

Begin(p, cmd, c) ==
    /\ pc[p] = "idle"
    /\ runs < MaxRuns
    /\ runs' = runs + 1
    /\ cfg' = [cfg EXCEPT ![p] = [cmd |-> cmd, flags |-> c]]
    /\ calls' = [calls EXCEPT ![p] = <<>>]
    /\ loc' = [loc EXCEPT ![p] = NoLoc]
    /\ branch' = [branch EXCEPT ![p] = ""]
    /\ pre' = [pre EXCEPT ![p] = Snapshot]

\* The validation at the head of PatchObjects, then its first call.
EnterPatchObjects(p, cmd, o) ==
    IF validatePatchOptions(o) # NoErr
    THEN PatcherFail(p, cmd, validatePatchOptions(o))
    ELSE Continue(p, firstCall(o))

(* create *)

createCommandStart(p) ==
    \E c \in CreateConfigs :
        /\ Begin(p, "create", c)
        /\ Goto(p, "createGetCa")
        /\ UNCHANGED <<cluster, stored, opts>>

\* Mutant: every error of the lookup is taken for "no secret".
createCommandGetCaAnyError(p) ==
    /\ pc[p] = "createGetCa"
    /\ \E fail \in BOOLEAN, failAt \in GenerateFailPoints :
        LET c == cfg[p].flags
            r == GetCaFromSecret(secrets, c.secretName, c.namespace, fail)
            \* fresh material: it differs from that of every secret stored so far
            \* and from that of the other invocation
            g == GenerateCerts(c.host, 2 * Cardinality(stored) + p, failAt)
        IN  /\ Record(p, Call("Secret", "get", c.secretName))
            /\ IF r.err # NoErr
               THEN /\ branch' = [branch EXCEPT ![p] = "creating new secret"]
                    /\ IF g.err # NoErr
                       THEN /\ Finish(p, Err("failed to generate certs", g.err))
                            /\ UNCHANGED loc
                       ELSE /\ Goto(p, "createSave")
                            /\ loc' = [loc EXCEPT ![p] = g]
               ELSE IF r.err # NoErr
               THEN /\ Finish(p, Err("failed to get secret", r.err))
                    /\ UNCHANGED <<branch, loc>>
               ELSE /\ branch' = [branch EXCEPT ![p] = "secret already exists"]
                    /\ Finish(p, Ok)
                    /\ UNCHANGED loc
    /\ UNCHANGED <<cluster, stored, runs, cfg, opts, pre>>

\* GetCaFromSecret and the switch on its error; on ErrNoSecret GenerateCerts
\* runs before the next cluster call.
createCommandGetCa(p) ==
    /\ pc[p] = "createGetCa"
    /\ \E fail \in BOOLEAN, failAt \in GenerateFailPoints :
        LET c == cfg[p].flags
            r == GetCaFromSecret(secrets, c.secretName, c.namespace, fail)
            \* fresh material: it differs from that of every secret stored so far
            \* and from that of the other invocation
            g == GenerateCerts(c.host, 2 * Cardinality(stored) + p, failAt)
        IN  /\ Record(p, Call("Secret", "get", c.secretName))
            /\ IF r.err = ErrNoSecret
               THEN /\ branch' = [branch EXCEPT ![p] = "creating new secret"]
                    /\ IF g.err # NoErr
                       THEN /\ Finish(p, Err("failed to generate certs", g.err))
                            /\ UNCHANGED loc
                       ELSE /\ Goto(p, "createSave")
                            /\ loc' = [loc EXCEPT ![p] = g]
               ELSE IF r.err # NoErr
               THEN /\ Finish(p, Err("failed to get secret", r.err))
                    /\ UNCHANGED <<branch, loc>>
               ELSE /\ branch' = [branch EXCEPT ![p] = "secret already exists"]
                    /\ Finish(p, Ok)
                    /\ UNCHANGED loc
    /\ UNCHANGED <<cluster, stored, runs, cfg, opts, pre>>

createCommandSave(p) ==
    /\ pc[p] = "createSave"
    /\ \E fail \in BOOLEAN :
        LET c == cfg[p].flags
            r == SaveCertsToSecret(secrets, c.secretName, c.secretType, c.namespace,
                                   c.certName, c.keyName, loc[p].ca, loc[p].cert, loc[p].key, fail)
        IN  /\ Record(p, Call("Secret", "create", c.secretName))
            /\ secrets' = r.store
            /\ IF r.err # NoErr
               THEN /\ Finish(p, Err("failed to save certs to secret", r.err))
                    /\ UNCHANGED stored
               ELSE /\ Finish(p, Ok)
                    /\ stored' = stored \cup {SecretKey(c.namespace, c.secretName)}
    /\ UNCHANGED <<vwc, mwc, apisvc, runs, cfg, opts, loc, branch, pre>>

(* patch *)

PatchStart(p) ==
    \E c \in PatchConfigs :
        /\ Begin(p, "patch", c)
        /\ IF PatchFlagError(c) # NoErr
           THEN Finish(p, Err(PatchFlagError(c), PatchFlagError(c)))
           ELSE Goto(p, "patchGetCa")
        /\ UNCHANGED <<cluster, stored, opts>>

\* GetCaFromSecret, the options, and PatchObjects up to its first call.
PatchGetCa(p) ==
    /\ pc[p] = "patchGetCa"
    /\ \E fail \in BOOLEAN :
        LET c == cfg[p].flags
            r == GetCaFromSecret(secrets, c.SecretName, c.Namespace, fail)
        IN  /\ Record(p, Call("Secret", "get", c.SecretName))
            /\ IF r.err # NoErr
               THEN /\ Finish(p, Err("failed to get ca from secret", r.err))
                    /\ UNCHANGED opts
               ELSE IF r.data = Nil
               THEN /\ Finish(p, Err("no secret", "no secret"))
                    /\ UNCHANGED opts
               ELSE /\ opts' = [opts EXCEPT ![p] = PatchOptionsOf(c, r.data)]
                    /\ EnterPatchObjects(p, "patch", PatchOptionsOf(c, r.data))
    /\ UNCHANGED <<cluster, stored, runs, cfg, loc, branch, pre>>

\* PatchObjects called on the helper directly, with any options.
PatchObjectsStart(p) ==
    \E o \in PatchOptionsSet :
        /\ Begin(p, "PatchObjects", o)
        /\ opts' = [opts EXCEPT ![p] = o]
        /\ EnterPatchObjects(p, "PatchObjects", o)
        /\ UNCHANGED <<cluster, stored>>

\* Mutant: InsecureSkipTLSVerify is left as fetched.
patchAPIServiceGetKeepInsecure(p) ==
    /\ pc[p] = "apiGet"
    /\ \E fail \in BOOLEAN :
        LET name == opts[p].APIServiceName
        IN  /\ Record(p, Call("APIService", "get", name))
            /\ IF fail \/ name \notin DOMAIN apisvc
               THEN /\ PatcherFail(p, cfg[p].cmd, "error getting APIService")
                    /\ UNCHANGED loc
               ELSE /\ loc' = [loc EXCEPT ![p] = [apisvc[name] EXCEPT !.CABundle = opts[p].CABundle]]
                    /\ Goto(p, "apiUpdate")
    /\ UNCHANGED <<cluster, stored, runs, cfg, opts, branch, pre>>

patchAPIServiceGet(p) ==
    /\ pc[p] = "apiGet"
    /\ \E fail \in BOOLEAN :
        LET name == opts[p].APIServiceName
        IN  /\ Record(p, Call("APIService", "get", name))
            /\ IF fail \/ name \notin DOMAIN apisvc
               THEN /\ PatcherFail(p, cfg[p].cmd, "error getting APIService")
                    /\ UNCHANGED loc
               ELSE /\ loc' = [loc EXCEPT ![p] = [apisvc[name] EXCEPT !.CABundle = opts[p].CABundle,
                                                                   !.InsecureSkipTLSVerify = FALSE]]
                    /\ Goto(p, "apiUpdate")
    /\ UNCHANGED <<cluster, stored, runs, cfg, opts, branch, pre>>

patchAPIServiceUpdate(p) ==
    /\ pc[p] = "apiUpdate"
    /\ \E fail \in BOOLEAN :
        LET name == opts[p].APIServiceName
        IN  /\ Record(p, Call("APIService", "update", name))
            /\ IF fail \/ name \notin DOMAIN apisvc
               THEN /\ PatcherFail(p, cfg[p].cmd, "error patching APIService")
                    /\ UNCHANGED apisvc
               ELSE /\ apisvc' = [apisvc EXCEPT ![name] = loc[p]]
                    /\ Continue(p, afterAPIService(opts[p]))
    /\ UNCHANGED <<secrets, vwc, mwc, stored, runs, cfg, opts, loc, branch, pre>>

(* webhook configurations: each source function is a Get step and a write step *)

updated(p, hooks) == updateWebhooks(hooks, opts[p].CABundle, opts[p].FailurePolicyType)

applied(p, hooks) == applyConfiguration(hooks, opts[p].CABundle, opts[p].FailurePolicyType)

\* The Get at the head of update*/apply*Webhook and the object built from it:
\* the mutated object (mode "update") or the apply configuration ("apply").
WebhookGet(p, label, kind, store, msg, mode, next) ==
    /\ pc[p] = label
    /\ \E fail \in BOOLEAN :
        LET name == getWebhookName(opts[p])
        IN  /\ Record(p, Call(kind, "get", name))
            /\ IF fail \/ name \notin DOMAIN store
               THEN /\ PatcherFail(p, cfg[p].cmd, msg)
                    /\ UNCHANGED loc
               ELSE /\ loc' = [loc EXCEPT ![p] = IF mode = "update"
                                                 THEN [ResourceVersion |-> store[name],
                                                       Webhooks |-> updated(p, store[name])]
                                                 ELSE applied(p, store[name])]
                    /\ Goto(p, next)
    /\ UNCHANGED <<cluster, stored, runs, cfg, opts, branch, pre>>

updateValidatingWebhookGet(p) ==
    WebhookGet(p, "valUpdateGet", "ValidatingWebhookConfiguration", vwc,
               "failed getting validating webhook", "update", "valUpdate")

applyValidatingWebhookGet(p) ==
    WebhookGet(p, "valApplyGet", "ValidatingWebhookConfiguration", vwc,
               "failed getting validating webhook", "apply", "valApply")

updateMutatingWebhookGet(p) ==
    WebhookGet(p, "mutUpdateGet", "MutatingWebhookConfiguration", mwc,
               "failed getting mutating webhook", "update", "mutUpdate")

applyMutatingWebhookGet(p) ==
    WebhookGet(p, "mutApplyGet", "MutatingWebhookConfiguration", mwc,
               "failed getting mutating webhook", "apply", "mutApply")

\* Mutant: the error of the Update is not looked at.
UpdateResultErrorIgnored(store, name, obj, fail) ==
    IF fail \/ name \notin DOMAIN store
    THEN [store |-> store, ok |-> TRUE]
    ELSE IF store[name] # obj.ResourceVersion
    THEN [store |-> store, ok |-> TRUE]
    ELSE [store |-> [store EXCEPT ![name] = obj.Webhooks], ok |-> TRUE]

\* Mutant: the Update is unconditional, the resourceVersion is not compared.
UpdateResultUnconditional(store, name, obj, fail) ==
    IF fail \/ name \notin DOMAIN store
    THEN [store |-> store, ok |-> FALSE]
    ELSE [store |-> [store EXCEPT ![name] = obj.Webhooks], ok |-> TRUE]

\* Update: the object sent is the one fetched, resourceVersion included, so
\* the server refuses it with a conflict when the stored object has changed
\* since; otherwise it replaces the stored one. The server gives an object a
\* new resourceVersion on every write that changes it: the version is
\* modelled by the content it names.
UpdateResult(store, name, obj, fail) ==
    IF fail \/ name \notin DOMAIN store
    THEN [store |-> store, ok |-> FALSE]
    ELSE IF store[name] # obj.ResourceVersion
    THEN [store |-> store, ok |-> FALSE]
    ELSE [store |-> [store EXCEPT ![name] = obj.Webhooks], ok |-> TRUE]

\* Apply: the apply configuration is merged into the stored object.
ApplyResult(store, name, applyConfig, fail) ==
    IF fail \/ name \notin DOMAIN store
    THEN [store |-> store, ok |-> FALSE]
    ELSE IF ~ApplyAccepted(store[name], applyConfig)
    THEN [store |-> store, ok |-> FALSE]
    ELSE [store |-> [store EXCEPT ![name] = ApplyMerge(store[name], applyConfig)], ok |-> TRUE]

updateValidatingWebhookUpdate(p) ==
    /\ pc[p] = "valUpdate"
    /\ \E fail \in BOOLEAN :
        LET name == getWebhookName(opts[p])
            r == UpdateResult(vwc, name, loc[p], fail)
        IN  /\ Record(p, Call("ValidatingWebhookConfiguration", "update", name))
            /\ vwc' = r.store
            /\ IF r.ok
               THEN Goto(p, "valApplyGet")
               ELSE PatcherFail(p, cfg[p].cmd, "failed patching validating webhook")
    /\ UNCHANGED <<secrets, mwc, apisvc, stored, runs, cfg, opts, loc, branch, pre>>

applyValidatingWebhookApply(p) ==
    /\ pc[p] = "valApply"
    /\ \E fail \in BOOLEAN :
        LET name == getWebhookName(opts[p])
            r == ApplyResult(vwc, name, loc[p], fail)
        IN  /\ Record(p, Call("ValidatingWebhookConfiguration", "apply", name))
            /\ vwc' = r.store
            /\ IF r.ok
               THEN Continue(p, mutatingEntry(opts[p]))
               ELSE PatcherFail(p, cfg[p].cmd, "failed patching validating webhook")
    /\ UNCHANGED <<secrets, mwc, apisvc, stored, runs, cfg, opts, loc, branch, pre>>

updateMutatingWebhookUpdate(p) ==
    /\ pc[p] = "mutUpdate"
    /\ \E fail \in BOOLEAN :
        LET name == getWebhookName(opts[p])
            r == UpdateResult(mwc, name, loc[p], fail)
        IN  /\ Record(p, Call("MutatingWebhookConfiguration", "update", name))
            /\ mwc' = r.store
            /\ IF r.ok
               THEN Goto(p, "mutApplyGet")
               ELSE PatcherFail(p, cfg[p].cmd, "failed patching mutating webhook")
    /\ UNCHANGED <<secrets, vwc, apisvc, stored, runs, cfg, opts, loc, branch, pre>>

applyMutatingWebhookApply(p) ==
    /\ pc[p] = "mutApply"
    /\ \E fail \in BOOLEAN :
        LET name == getWebhookName(opts[p])
            r == ApplyResult(mwc, name, loc[p], fail)
        IN  /\ Record(p, Call("MutatingWebhookConfiguration", "apply", name))
            /\ mwc' = r.store
            /\ IF r.ok
               THEN Finish(p, Ok)
               ELSE PatcherFail(p, cfg[p].cmd, "failed patching mutating webhook")
    /\ UNCHANGED <<secrets, vwc, apisvc, stored, runs, cfg, opts, loc, branch, pre>>

\* The cluster is shared: another client (a second job of the same chart)
\* creates the secret between this invocation's Get and its Create.
ForeignCA == <<"ca", 99>>

ForeignCreate(p) ==
    /\ pc[p] = "createSave"
    /\ LET k == SecretKey(cfg[p].flags.namespace, cfg[p].flags.secretName)
       IN  /\ k \notin DOMAIN secrets
           /\ secrets' = [x \in (DOMAIN secrets) \cup {k} |->
                             IF x = k
                             THEN NewSecret("Opaque", "cert", "key", ForeignCA, <<"cert", 99>>, <<"key", 99>>)
                             ELSE secrets[x]]
    /\ UNCHANGED <<vwc, mwc, apisvc, stored, runs, procvars>>

\* The command returns and the process ends; the next invocation is a new process.
Exit(p) ==
    /\ pc[p] = "done"
    /\ pc' = [pc EXCEPT ![p] = "idle"]
    /\ cfg' = [cfg EXCEPT ![p] = IdleCfg]
    /\ opts' = [opts EXCEPT ![p] = NoOpts]
    /\ loc' = [loc EXCEPT ![p] = NoLoc]
    /\ calls' = [calls EXCEPT ![p] = <<>>]
    /\ result' = [result EXCEPT ![p] = Running]
    /\ branch' = [branch EXCEPT ![p] = ""]
    /\ pre' = [pre EXCEPT ![p] = NoSnapshot]
    /\ UNCHANGED <<cluster, stored, runs>>

----------------------------------------------------------------------------
(* One invocation at a time: the tool runs as a single-shot job *)

Next ==
    \/ createCommandStart(1)
    \/ createCommandGetCa(1)
    \/ createCommandSave(1)
    \/ ForeignCreate(1)
    \/ PatchStart(1)
    \/ PatchGetCa(1)
    \/ PatchObjectsStart(1)
    \/ patchAPIServiceGet(1)
    \/ patchAPIServiceUpdate(1)
    \/ updateValidatingWebhookGet(1)
    \/ updateValidatingWebhookUpdate(1)
    \/ applyValidatingWebhookGet(1)
    \/ applyValidatingWebhookApply(1)
    \/ updateMutatingWebhookGet(1)
    \/ updateMutatingWebhookUpdate(1)
    \/ applyMutatingWebhookGet(1)
    \/ applyMutatingWebhookApply(1)
    \/ Exit(1)

Spec == Init /\ [][Next]_vars

----------------------------------------------------------------------------
(* pkg/certs and its test: GenerateCerts called on its own, then a TLS
   handshake with the material it returned *)

\* tls.X509KeyPair: the private key must belong to the certificate.
X509KeyPair(cert, key) == pemDecode(cert).PublicKey = pemDecode(key).PublicKey

\* Certificate.CheckSignatureFrom: the parent may sign and its key verifies
\* the signature.
CheckSignatureFrom(c, parent) ==
    /\ parent.BasicConstraintsValid /\ parent.IsCA
    /\ "CertSign" \in parent.KeyUsage
    /\ c.Signature = parent.PublicKey

\* Certificate.VerifyHostname: an IP literal is looked up in IPAddresses,
\* every other name in DNSNames; the empty name matches nothing.
VerifyHostname(c, h) ==
    IF IsIP(h)
    THEN \E i \in 1 .. Len(c.IPAddresses) : c.IPAddresses[i] = ParseIP(h).ip
    ELSE h # <<>> /\ \E i \in 1 .. Len(c.DNSNames) : c.DNSNames[i] = h

\* Certificate.Verify with Roots = roots and the server-auth usage.
VerifyChain(c, roots) ==
    \E parent \in roots :
        /\ c.Issuer = parent.Subject
        /\ CheckSignatureFrom(c, parent)
        /\ "ServerAuth" \in c.ExtKeyUsage
        /\ "ServerAuth" \in parent.ExtKeyUsage

\* The client of the test: RootCAs holds the returned CA only.
Handshake(ca, cert, key, serverName) ==
    IF ~X509KeyPair(cert, key)
    THEN Err("tls: private key does not match public key", "X509KeyPair")
    ELSE IF ~VerifyChain(pemDecode(cert), {pemDecode(ca)})
    THEN Err("x509: certificate signed by unknown authority", "Verify")
    ELSE IF ~VerifyHostname(pemDecode(cert), serverName)
    THEN Err("x509: certificate is not valid for the name", "VerifyHostname")
    ELSE Ok

Tokens(hosts) == {SplitSeq(hosts, ",")[i] : i \in 1 .. Len(SplitSeq(hosts, ","))}

\* The names a client may ask for: those of the list, and two more.
ServerNames(hosts) == Tokens(hosts) \cup {<<"h", "h">>, <<":", ":">>}

GenerateCertsCall(p) ==
    /\ pc[p] = "idle"
    /\ runs < MaxRuns
    /\ runs' = runs + 1
    /\ \E hosts \in HostLists, failAt \in GenerateFailPoints :
        LET r == GenerateCerts(hosts, runs + 1, failAt)
        IN  /\ cfg' = [cfg EXCEPT ![p] = [cmd |-> "GenerateCerts", flags |-> [host |-> hosts]]]
            /\ loc' = [loc EXCEPT ![p] = r]
            /\ IF r.err # NoErr
               THEN Finish(p, Err("GenerateCerts", r.err))
               ELSE Goto(p, "handshake")
    /\ UNCHANGED <<cluster, stored, opts, calls, branch, pre>>

TestCertificateCreation(p) ==
    /\ pc[p] = "handshake"
    /\ \E serverName \in ServerNames(cfg[p].flags.host) :
        /\ opts' = [opts EXCEPT ![p] = [set |-> TRUE, ServerName |-> serverName]]
        /\ Finish(p, Handshake(loc[p].ca, loc[p].cert, loc[p].key, serverName))
    /\ UNCHANGED <<cluster, stored, runs, cfg, loc, calls, branch, pre>>

CertsInit == Init /\ secrets = EmptyMap

CertsNext ==
    \/ GenerateCertsCall(1)
    \/ TestCertificateCreation(1)
    \/ Exit(1)

CertsSpec == CertsInit /\ [][CertsNext]_vars

----------------------------------------------------------------------------
(* The same patch invocation run twice in succession: process 1, and when it
   has succeeded process 2 with the flags of process 1 *)

PatchObjectsSteps(p) ==
    \/ patchAPIServiceGet(p)
    \/ patchAPIServiceUpdate(p)
    \/ updateValidatingWebhookGet(p)
    \/ updateValidatingWebhookUpdate(p)
    \/ applyValidatingWebhookGet(p)
    \/ applyValidatingWebhookApply(p)
    \/ updateMutatingWebhookGet(p)
    \/ updateMutatingWebhookUpdate(p)
    \/ applyMutatingWebhookGet(p)
    \/ applyMutatingWebhookApply(p)

PatchSteps(p) ==
    \/ PatchGetCa(p)
    \/ PatchObjectsSteps(p)

\* patchCommand started again with the flags of the invocation q.
PatchAgain(p, q) ==
    /\ pc[q] = "done" /\ result[q] = Ok /\ cfg[q].cmd = "patch"
    /\ Begin(p, "patch", cfg[q].flags)
    /\ IF PatchFlagError(cfg[q].flags) # NoErr
       THEN Finish(p, Err(PatchFlagError(cfg[q].flags), PatchFlagError(cfg[q].flags)))
       ELSE Goto(p, "patchGetCa")
    /\ UNCHANGED <<cluster, stored, opts>>

TwiceNext ==
    \/ PatchStart(1)
    \/ PatchSteps(1)
    \/ PatchAgain(2, 1)
    \/ PatchSteps(2)

TwiceSpec == Init /\ [][TwiceNext]_vars

----------------------------------------------------------------------------
(* PatchObjects while another client writes the webhook configurations *)

\* What the other client changes: a field this tool does not set.
ModifiedByOther(hooks) == [hooks EXCEPT ![1].SideEffects = "NoneOnDryRun"]

\* Another client updates the configuration this run has fetched for its
\* Update and not yet written; branch records which kind it was.
ForeignModify(p) ==
    /\ branch[p] = ""
    /\ \/ /\ pc[p] = "valUpdate"
          /\ vwc' = [vwc EXCEPT ![getWebhookName(opts[p])] = ModifiedByOther(@)]
          /\ branch' = [branch EXCEPT ![p] = "ValidatingWebhookConfiguration"]
          /\ UNCHANGED mwc
       \/ /\ pc[p] = "mutUpdate"
          /\ mwc' = [mwc EXCEPT ![getWebhookName(opts[p])] = ModifiedByOther(@)]
          /\ branch' = [branch EXCEPT ![p] = "MutatingWebhookConfiguration"]
          /\ UNCHANGED vwc
    /\ UNCHANGED <<secrets, apisvc, stored, runs, pc, cfg, opts, loc, calls, result, pre>>

ConflictNext ==
    \/ PatchObjectsStart(1)
    \/ PatchObjectsSteps(1)
    \/ ForeignModify(1)

ConflictSpec == Init /\ [][ConflictNext]_vars

----------------------------------------------------------------------------
(* Two create invocations on the same secret *)

\* createCommand started while invocation q runs, with the secret name and
\* the namespace of q.
createCommandConcurrent(p, q) ==
    /\ pc[q] # "idle" /\ cfg[q].cmd = "create"
    /\ \E c \in CreateConfigs :
        /\ c.secretName = cfg[q].flags.secretName
        /\ c.namespace = cfg[q].flags.namespace
        /\ Begin(p, "create", c)
        /\ Goto(p, "createGetCa")
    /\ UNCHANGED <<cluster, stored, opts>>

RaceNext ==
    \/ createCommandStart(1)
    \/ createCommandGetCa(1)
    \/ createCommandSave(1)
    \/ createCommandConcurrent(2, 1)
    \/ createCommandGetCa(2)
    \/ createCommandSave(2)

RaceSpec == Init /\ [][RaceNext]_vars

----------------------------------------------------------------------------
(* create, then patch on the secret it stored *)

\* patchCommand started after the create invocation q has succeeded, on the
\* secret name and namespace of q, with any name for the CA field.
PatchAfterCreate(p, q) ==
    /\ pc[q] = "done" /\ result[q] = Ok /\ cfg[q].cmd = "create"
    /\ \E c \in PatchConfigs, caName \in CaNames :
        /\ c.SecretName = cfg[q].flags.secretName
        /\ c.Namespace = cfg[q].flags.namespace
        /\ Begin(p, "patch", [c EXCEPT !.CaName = caName])
        /\ IF PatchFlagError(c) # NoErr
           THEN Finish(p, Err(PatchFlagError(c), PatchFlagError(c)))
           ELSE Goto(p, "patchGetCa")
    /\ UNCHANGED <<cluster, stored, opts>>

\* Patch from its lookup on, the lookup called as cmd/patch.go calls it, with
\* the name of the CA field.
PatchGetCaNamed(p) ==
    /\ pc[p] = "patchGetCa"
    /\ \E fail \in BOOLEAN :
        LET c == cfg[p].flags
            r == GetCaFromSecretNamed(secrets, c.CaName, c.SecretName, c.Namespace, fail)
        IN  /\ Record(p, Call("Secret", "get", c.SecretName))
            /\ IF r.err # NoErr
               THEN /\ Finish(p, Err("failed to get ca from secret", r.err))
                    /\ UNCHANGED opts
               ELSE IF r.data = Nil
               THEN /\ Finish(p, Err("no secret", "no secret"))
                    /\ UNCHANGED opts
               ELSE /\ opts' = [opts EXCEPT ![p] = PatchOptionsOf(c, r.data)]
                    /\ EnterPatchObjects(p, "patch", PatchOptionsOf(c, r.data))
    /\ UNCHANGED <<cluster, stored, runs, cfg, loc, branch, pre>>

AgreeNext ==
    \/ createCommandStart(1)
    \/ createCommandGetCa(1)
    \/ createCommandSave(1)
    \/ PatchAfterCreate(2, 1)
    \/ PatchGetCaNamed(2)
    \/ PatchObjectsSteps(2)

AgreeSpec == Init /\ [][AgreeNext]_vars

----------------------------------------------------------------------------
(* Properties *)

Done(p) == pc[p] = "done"

Succeeded(p) == Done(p) /\ result[p].status = "ok"

Failed(p) == Done(p) /\ IsErr(result[p])

IsCreate(p) == cfg[p].cmd = "create"

IsPatch(p) == cfg[p].cmd = "patch"

\* PatchObjects has been entered, by Patch or directly.
InPatchObjects(p) == opts[p] # NoOpts

CreateKey(p) == SecretKey(cfg[p].flags.namespace, cfg[p].flags.secretName)

PatchKey(p) == SecretKey(cfg[p].flags.Namespace, cfg[p].flags.SecretName)

CallsOn(p, kinds) == {i \in 1 .. Len(calls[p]) : calls[p][i].kind \in kinds}

WriteCalls(p) == {i \in 1 .. Len(calls[p]) : calls[p][i].verb # "get"}

WebhookKinds == {"ValidatingWebhookConfiguration", "MutatingWebhookConfiguration"}

ClusterUntouched(p) ==
    /\ secrets = pre[p].secrets
    /\ vwc = pre[p].vwc
    /\ mwc = pre[p].mwc
    /\ apisvc = pre[p].apisvc

\* C1: a create for a secret that an earlier create of this tool stored
\* issues no write call and leaves the cluster as it was; when the cluster
\* answers its Get, it takes the "secret already exists" branch and returns
\* success.
C1_CreateTwiceIdempotent ==
    \A p \in Procs :
        (Done(p) /\ IsCreate(p) /\ CreateKey(p) \in pre[p].stored)
        => /\ WriteCalls(p) = {}
           /\ ClusterUntouched(p)
           /\ (result[p].cause # "error getting secret"
               => branch[p] = "secret already exists" /\ result[p] = Ok)

C1_Witness ==
    \E p \in Procs :
        /\ Succeeded(p) /\ IsCreate(p) /\ CreateKey(p) \in pre[p].stored
        /\ branch[p] = "secret already exists"
        /\ Len(calls[p]) = 1

\* C2: no step of any create or patch invocation changes or removes a
\* Secret that exists: its type and data stay what they were.
C2_ExistingSecretNeverModified ==
    [][\A k \in DOMAIN secrets : k \in DOMAIN secrets' /\ secrets'[k] = secrets[k]]_vars

\* The Create call of a create invocation met a secret that already existed.
C2_Witness ==
    \E p \in Procs :
        /\ Failed(p) /\ IsCreate(p)
        /\ \E i \in 1 .. Len(calls[p]) : calls[p][i].verb = "create"
        /\ CreateKey(p) \in DOMAIN secrets
        /\ MapGet(secrets[CreateKey(p)].Data, "ca.crt") = ForeignCA

\* C3: a successful patch of webhook w that targets one kind only leaves
\* every entry of that kind's configuration w with the CA read from the
\* secret as caBundle, and makes no call on the other kind, whose objects
\* stay as they were.
OnlyKindPatched(p, store, otherKind, otherStore, otherBefore) ==
    LET w == cfg[p].flags.WebhookName
        ca == MapGet(secrets[PatchKey(p)].Data, "ca.crt")
    IN  /\ ca # Nil
        /\ \A i \in 1 .. Len(store[w]) : store[w][i].CABundle = ca
        /\ CallsOn(p, {otherKind}) = {}
        /\ otherStore = otherBefore

C3_PatchOneKindOnly ==
    \A p \in Procs :
        (Succeeded(p) /\ IsPatch(p) /\ cfg[p].flags.WebhookName # "")
        => /\ (cfg[p].flags.PatchValidating /\ ~cfg[p].flags.PatchMutating)
              => OnlyKindPatched(p, vwc, "MutatingWebhookConfiguration", mwc, pre[p].mwc)
           /\ (cfg[p].flags.PatchMutating /\ ~cfg[p].flags.PatchValidating)
              => OnlyKindPatched(p, mwc, "ValidatingWebhookConfiguration", vwc, pre[p].vwc)

C3_Witness ==
    \E p \in Procs :
        /\ Succeeded(p) /\ IsPatch(p) /\ cfg[p].flags.WebhookName = "w"
        /\ cfg[p].flags.PatchValidating /\ ~cfg[p].flags.PatchMutating
        /\ cfg[p].flags.PatchMethod = "patch"
        /\ vwc # pre[p].vwc
        /\ \A i \in 1 .. Len(vwc["w"]) : vwc["w"][i].CABundle = opts[p].CABundle

\* C4: after a successful patch with --patch-failure-policy Ignore or Fail
\* that targets a webhook kind, every entry of every targeted configuration
\* has that failure policy.
PolicyIs(store, name, policy) ==
    \A i \in 1 .. Len(store[name]) : store[name][i].FailurePolicy = policy

C4_FailurePolicyApplied ==
    \A p \in Procs :
        (Succeeded(p) /\ IsPatch(p) /\ cfg[p].flags.WebhookName # ""
            /\ cfg[p].flags.PatchFailurePolicy \in {"Ignore", "Fail"})
        => /\ cfg[p].flags.PatchValidating
              => PolicyIs(vwc, cfg[p].flags.WebhookName, cfg[p].flags.PatchFailurePolicy)
           /\ cfg[p].flags.PatchMutating
              => PolicyIs(mwc, cfg[p].flags.WebhookName, cfg[p].flags.PatchFailurePolicy)

\* C5: a successful PatchObjects with an empty failure policy changes, in
\* every entry of every targeted configuration, the caBundle only; the
\* failure policy is what it was, in update mode and in patch mode.
OnlyCABundleSet(before, after, ca) ==
    /\ Len(after) = Len(before)
    /\ \A i \in 1 .. Len(before) : after[i] = [before[i] EXCEPT !.CABundle = ca]

C6_InvalidFailurePolicyRejected ==
    \A p \in Procs :
        (Done(p) /\ IsPatch(p) /\ cfg[p].flags.PatchFailurePolicy \notin {"", "Ignore", "Fail"})
        => /\ IsErr(result[p])
           /\ calls[p] = <<>>
           /\ ClusterUntouched(p)

C6_Witness ==
    \E p \in Procs :
        /\ Failed(p) /\ IsPatch(p) /\ cfg[p].flags.PatchFailurePolicy = "Never"
        /\ cfg[p].flags.PatchValidating /\ cfg[p].flags.WebhookName = "w"
        /\ PatchKey(p) \in DOMAIN secrets

\* C7: Patch with patch-validating=false, patch-mutating=false and no
\* APIService name returns an error, whatever the failure policy flag, and
\* makes no cluster call.
C7_NothingToPatchRejected ==
    \A p \in Procs :
        (Done(p) /\ IsPatch(p) /\ ~cfg[p].flags.PatchValidating /\ ~cfg[p].flags.PatchMutating
            /\ cfg[p].flags.APIServiceName = "")
        => /\ IsErr(result[p])
           /\ calls[p] = <<>>
           /\ ClusterUntouched(p)

C7_Witness ==
    \E p \in Procs :
        /\ Failed(p) /\ IsPatch(p) /\ ~cfg[p].flags.PatchValidating /\ ~cfg[p].flags.PatchMutating
        /\ cfg[p].flags.APIServiceName = "" /\ cfg[p].flags.PatchFailurePolicy = "Fail"
        /\ result[p].msg = "patch-validating=false, patch-mutating=false"

\* C8: PatchObjects with a failure policy and no webhook configuration name
\* returns an error and calls neither an APIService nor a webhook
\* configuration, also when an APIService name is given.
C8_PolicyWithoutWebhookRejected ==
    \A p \in Procs :
        (Done(p) /\ InPatchObjects(p) /\ opts[p].FailurePolicyType # ""
            /\ opts[p].ValidatingWebhookConfigurationName = ""
            /\ opts[p].MutatingWebhookConfigurationName = "")
        => /\ IsErr(result[p])
           /\ CallsOn(p, {"APIService"} \cup WebhookKinds) = {}
           /\ ClusterUntouched(p)

C8_Witness ==
    \E p \in Procs :
        /\ Failed(p) /\ InPatchObjects(p) /\ opts[p].FailurePolicyType = "Fail"
        /\ opts[p].ValidatingWebhookConfigurationName = ""
        /\ opts[p].MutatingWebhookConfigurationName = ""
        /\ opts[p].APIServiceName = "a"
        /\ result[p].cause = "failurePolicy specified, but no webhook will be patched"

\* C9: PatchObjects with two different non-empty webhook configuration
\* names returns an error and makes no cluster call.
C9_ConflictingNamesRejected ==
    \A p \in Procs :
        (Done(p) /\ InPatchObjects(p)
            /\ opts[p].ValidatingWebhookConfigurationName # ""
            /\ opts[p].MutatingWebhookConfigurationName # ""
            /\ opts[p].ValidatingWebhookConfigurationName # opts[p].MutatingWebhookConfigurationName)
        => /\ IsErr(result[p])
           /\ calls[p] = <<>>
           /\ ClusterUntouched(p)

C9_Witness ==
    \E p \in Procs :
        /\ Failed(p) /\ InPatchObjects(p)
        /\ opts[p].ValidatingWebhookConfigurationName = "x"
        /\ opts[p].MutatingWebhookConfigurationName = "w"
        /\ result[p].cause = "mutating and validating webhook names must be the same"

\* C10: a patch invocation whose patch method is neither "patch" nor
\* "update" fails without any cluster call, the read of the secret included.
C10_InvalidMethodRejectedBeforeAnyCall ==
    \A p \in Procs :
        (Done(p) /\ IsPatch(p) /\ cfg[p].flags.PatchMethod \notin {"patch", "update"})
        => /\ IsErr(result[p])
           /\ calls[p] = <<>>

\* The calls of one PatchObjects run, by object and verb.
UpdatesOf(p, kind) ==
    {i \in CallsOn(p, {kind}) : calls[p][i].verb = "update"}

AppliesOf(p, kind) ==
    {i \in CallsOn(p, {kind}) : calls[p][i].verb = "apply"}

WritesOf(p, kind) == UpdatesOf(p, kind) \cup AppliesOf(p, kind)

\* C11: in the calls of one PatchObjects run the APIService update comes
\* before every webhook configuration write, and every write of the
\* ValidatingWebhookConfiguration before every call on the
\* MutatingWebhookConfiguration; when an APIService is named no webhook
\* configuration is called before its update, and when both kinds are
\* targeted the mutating one is not called before the validating one was
\* applied.
C11_PatchObjectsOrder ==
    \A p \in Procs :
        InPatchObjects(p)
        => /\ \A i \in UpdatesOf(p, "APIService"), j \in CallsOn(p, WebhookKinds) \cap WriteCalls(p) : i < j
           /\ \A i \in WritesOf(p, "ValidatingWebhookConfiguration"),
                 j \in CallsOn(p, {"MutatingWebhookConfiguration"}) : i < j
           /\ (opts[p].APIServiceName # "" /\ CallsOn(p, WebhookKinds) # {})
              => UpdatesOf(p, "APIService") # {}
           /\ (opts[p].ValidatingWebhookConfigurationName # ""
                 /\ CallsOn(p, {"MutatingWebhookConfiguration"}) # {})
              => AppliesOf(p, "ValidatingWebhookConfiguration") # {}

C11_Witness ==
    \E p \in Procs :
        /\ Succeeded(p) /\ InPatchObjects(p)
        /\ opts[p].APIServiceName = "a"
        /\ opts[p].ValidatingWebhookConfigurationName = "w"
        /\ opts[p].MutatingWebhookConfigurationName = "w"
        /\ UpdatesOf(p, "APIService") # {}
        /\ WritesOf(p, "ValidatingWebhookConfiguration") # {}
        /\ WritesOf(p, "MutatingWebhookConfiguration") # {}

\* The patched value of each object PatchObjects targets.
APIServicePatched(p) ==
    /\ opts[p].APIServiceName \in DOMAIN apisvc
    /\ apisvc[opts[p].APIServiceName].CABundle = opts[p].CABundle
    /\ ~apisvc[opts[p].APIServiceName].InsecureSkipTLSVerify

WebhooksPatched(p, store) ==
    /\ getWebhookName(opts[p]) \in DOMAIN store
    /\ \A i \in 1 .. Len(store[getWebhookName(opts[p])]) :
           store[getWebhookName(opts[p])][i].CABundle = opts[p].CABundle

APIServiceErrors == {"error getting APIService", "error patching APIService"}

ValidatingErrors == {"failed getting validating webhook", "failed patching validating webhook"}

MutatingErrors == {"failed getting mutating webhook", "failed patching mutating webhook"}

LastCall(p) == calls[p][Len(calls[p])]

\* C12: a PatchObjects run that ends without error has patched every
\* targeted object, so a failed call is never passed over; a run that ends
\* with the error of a step made that step's call last, called and changed
\* no object of a later step, and left every object written before the
\* failure with its patched value.
C12_FirstFailureAborts ==
    \A p \in Procs :
        (Done(p) /\ InPatchObjects(p))
        => /\ Succeeded(p)
              => /\ opts[p].APIServiceName # "" => APIServicePatched(p)
                 /\ opts[p].ValidatingWebhookConfigurationName # "" => WebhooksPatched(p, vwc)
                 /\ opts[p].MutatingWebhookConfigurationName # "" => WebhooksPatched(p, mwc)
           /\ result[p].cause \in APIServiceErrors
              => /\ LastCall(p).kind = "APIService"
                 /\ CallsOn(p, WebhookKinds) = {}
                 /\ apisvc = pre[p].apisvc /\ vwc = pre[p].vwc /\ mwc = pre[p].mwc
           /\ result[p].cause \in ValidatingErrors
              => /\ LastCall(p).kind = "ValidatingWebhookConfiguration"
                 /\ CallsOn(p, {"MutatingWebhookConfiguration"}) = {}
                 /\ mwc = pre[p].mwc
                 /\ opts[p].APIServiceName # "" => APIServicePatched(p)
                 /\ UpdatesOf(p, "ValidatingWebhookConfiguration") = {} => vwc = pre[p].vwc
                 /\ LastCall(p).verb = "apply" /\ opts[p].PatchMethod = "update"
                    => WebhooksPatched(p, vwc)
           /\ result[p].cause \in MutatingErrors
              => /\ LastCall(p).kind = "MutatingWebhookConfiguration"
                 /\ opts[p].APIServiceName # "" => APIServicePatched(p)
                 /\ opts[p].ValidatingWebhookConfigurationName # "" => WebhooksPatched(p, vwc)
                 /\ UpdatesOf(p, "MutatingWebhookConfiguration") = {} => mwc = pre[p].mwc

\* The Get of the mutating configuration fails after the APIService and the
\* validating configuration were patched.
C12_Witness ==
    \E p \in Procs :
        /\ Failed(p) /\ InPatchObjects(p)
        /\ result[p].cause = "failed getting mutating webhook"
        /\ opts[p].APIServiceName = "a"
        /\ opts[p].ValidatingWebhookConfigurationName = "w"
        /\ apisvc # pre[p].apisvc /\ vwc # pre[p].vwc /\ mwc = pre[p].mwc
        /\ APIServicePatched(p) /\ WebhooksPatched(p, vwc)

\* C13: once the update of patchAPIService has succeeded, the named
\* APIService is the one the run found with caBundle set to the supplied CA
\* and insecureSkipTLSVerify false; the run called the APIService API twice,
\* a get and then an update of that name, never an apply; every other
\* APIService is as it was.
C13_APIServicePatch ==
    \A p \in Procs :
        (InPatchObjects(p) /\ UpdatesOf(p, "APIService") # {}
            /\ result[p].cause # "error patching APIService")
        => LET name == opts[p].APIServiceName
               api == CallsOn(p, {"APIService"})
           IN  /\ name \in DOMAIN pre[p].apisvc
               /\ apisvc = [pre[p].apisvc EXCEPT
                               ![name] = [@ EXCEPT !.CABundle = opts[p].CABundle,
                                                   !.InsecureSkipTLSVerify = FALSE]]
               /\ Cardinality(api) = 2
               /\ \A i \in api : calls[p][i].name = name
               /\ \E i \in api : /\ i + 1 \in api
                                 /\ calls[p][i].verb = "get"
                                 /\ calls[p][i + 1].verb = "update"

C13_Witness ==
    \E p \in Procs :
        /\ Succeeded(p) /\ InPatchObjects(p) /\ opts[p].APIServiceName = "a"
        /\ pre[p].apisvc["a"].InsecureSkipTLSVerify
        /\ pre[p].apisvc["a"].CABundle # opts[p].CABundle
        /\ ~apisvc["a"].InsecureSkipTLSVerify
        /\ apisvc["a"].CABundle = opts[p].CABundle
        /\ apisvc["b"] = pre[p].apisvc["b"]

Targeted(p, kind) ==
    IF kind = "ValidatingWebhookConfiguration"
    THEN opts[p].ValidatingWebhookConfigurationName # ""
    ELSE opts[p].MutatingWebhookConfigurationName # ""

\* C14: with patch method "patch" no Update is ever issued for a webhook
\* configuration, and a run that succeeds wrote each targeted configuration
\* by one Apply; with patch method "update" a run that succeeds wrote each
\* targeted configuration by one full-object Update.
C14_PatchModeSelectsWrite ==
    \A p \in Procs :
        InPatchObjects(p)
        => \A kind \in WebhookKinds :
              /\ opts[p].PatchMethod = "patch" => UpdatesOf(p, kind) = {}
              /\ (Succeeded(p) /\ Targeted(p, kind) /\ opts[p].PatchMethod = "patch")
                 => Cardinality(AppliesOf(p, kind)) = 1
              /\ (Succeeded(p) /\ Targeted(p, kind) /\ opts[p].PatchMethod = "update")
                 => Cardinality(UpdatesOf(p, kind)) = 1
              /\ ~Targeted(p, kind) => CallsOn(p, {kind}) = {}

C14_Witness ==
    \E p \in Procs :
        /\ Succeeded(p) /\ IsPatch(p) /\ opts[p].PatchMethod = "patch"
        /\ Targeted(p, "ValidatingWebhookConfiguration")
        /\ Targeted(p, "MutatingWebhookConfiguration")
        /\ Cardinality(AppliesOf(p, "MutatingWebhookConfiguration")) = 1
        /\ vwc # pre[p].vwc /\ mwc # pre[p].mwc

\* A run in update mode that succeeded: each kind was written by an Update.
C14_WitnessUpdate ==
    \E p \in Procs :
        /\ Succeeded(p) /\ IsPatch(p) /\ opts[p].PatchMethod = "update"
        /\ Targeted(p, "MutatingWebhookConfiguration")
        /\ Cardinality(UpdatesOf(p, "MutatingWebhookConfiguration")) = 1
        /\ mwc # pre[p].mwc

StoreOf(kind) == IF kind = "ValidatingWebhookConfiguration" THEN vwc ELSE mwc

ApplyLabels(kind) ==
    IF kind = "ValidatingWebhookConfiguration"
    THEN {"valApplyGet", "valApply"}
    ELSE {"mutApplyGet", "mutApply"}

\* C15: in update mode every Apply on a kind comes after an Update on that
\* kind; the apply step is entered only with the updated object stored (the
\* Update succeeded); a run whose last call is an Update has failed and
\* holds no Apply on that kind; a run that succeeds issued, for each
\* targeted kind, one Update and then one Apply.
C15_UpdateThenApply ==
    \A p \in Procs :
        (InPatchObjects(p) /\ opts[p].PatchMethod = "update")
        => \A kind \in WebhookKinds :
              /\ \A j \in AppliesOf(p, kind) : \E i \in UpdatesOf(p, kind) : i < j
              /\ \A i \in UpdatesOf(p, kind), j \in AppliesOf(p, kind) : i < j
              /\ pc[p] \in ApplyLabels(kind) => WebhooksPatched(p, StoreOf(kind))
              /\ (Done(p) /\ calls[p] # <<>> /\ LastCall(p) = Call(kind, "update", getWebhookName(opts[p])))
                 => /\ Failed(p)
                    /\ AppliesOf(p, kind) = {}
                    /\ StoreOf(kind) = (IF kind = "ValidatingWebhookConfiguration"
                                        THEN pre[p].vwc ELSE pre[p].mwc)
              /\ (Succeeded(p) /\ Targeted(p, kind))
                 => Cardinality(UpdatesOf(p, kind)) = 1 /\ Cardinality(AppliesOf(p, kind)) = 1

\* The Update of the validating configuration failed: no Apply followed.
C15_Witness ==
    \E p \in Procs :
        /\ Failed(p) /\ InPatchObjects(p) /\ opts[p].PatchMethod = "update"
        /\ result[p].cause = "failed patching validating webhook"
        /\ LastCall(p) = Call("ValidatingWebhookConfiguration", "update", "w")
        /\ AppliesOf(p, "ValidatingWebhookConfiguration") = {}

\* The Update succeeded and the Apply followed it.
C15_WitnessApplied ==
    \E p \in Procs :
        /\ Succeeded(p) /\ InPatchObjects(p) /\ opts[p].PatchMethod = "update"
        /\ UpdatesOf(p, "ValidatingWebhookConfiguration") # {}
        /\ AppliesOf(p, "ValidatingWebhookConfiguration") # {}

\* What the caller of GetCaFromSecret shows of its outcome: create branches
\* on ErrNoSecret and on nil, Patch returns the error or passes the bytes on.
SawNoSecret(p) ==
    \/ IsCreate(p) /\ branch[p] = "creating new secret"
    \/ IsPatch(p) /\ result[p].cause = ErrNoSecret

SawNoField(p) == result[p].cause = "got secret, but it did not contain a 'ca.crt' key"

SawClientError(p) == result[p].cause = "error getting secret"

SawBytes(p) ==
    \/ IsCreate(p) /\ branch[p] = "secret already exists"
    \/ IsPatch(p) /\ InPatchObjects(p)

SecretAsked(p) == IF IsCreate(p) THEN CreateKey(p) ELSE PatchKey(p)

\* C16: once create or patch has called GetCaFromSecret, its caller saw one
\* of four outcomes: ErrNoSecret, and then the secret did not exist; the
\* missing-field error, and then the secret existed without "ca.crt"; the
\* wrapped client error; or bytes and no error, and then the secret existed
\* and the bytes are its "ca.crt". A missing secret is never reported as a
\* missing field or as bytes, and a secret without the field never as
\* missing or as bytes.
C16_GetCaFromSecretOutcomes ==
    \A p \in Procs :
        ((IsCreate(p) \/ IsPatch(p)) /\ calls[p] # <<>>)
        => LET exists == SecretAsked(p) \in DOMAIN pre[p].secrets
               data == IF exists THEN MapGet(pre[p].secrets[SecretAsked(p)].Data, "ca.crt") ELSE Nil
           IN  /\ calls[p][1].kind = "Secret" /\ calls[p][1].verb = "get"
               /\ Cardinality({n \in {"missing", "nofield", "client", "bytes"} :
                                  \/ n = "missing" /\ SawNoSecret(p)
                                  \/ n = "nofield" /\ SawNoField(p)
                                  \/ n = "client" /\ SawClientError(p)
                                  \/ n = "bytes" /\ SawBytes(p)}) = 1
               /\ SawNoSecret(p) => ~exists
               /\ SawNoField(p) => exists /\ data = Nil
               /\ SawBytes(p) => /\ exists /\ data # Nil
                                 /\ IsPatch(p) => opts[p].CABundle = data
               /\ (SawNoSecret(p) \/ SawNoField(p) \/ SawClientError(p))
                  => ~InPatchObjects(p) /\ branch[p] # "secret already exists"

\* A secret an older release wrote exists and has no "ca.crt".
C16_Witness ==
    \E p \in Procs :
        /\ Failed(p) /\ IsCreate(p) /\ SawNoField(p)
        /\ CreateKey(p) \in DOMAIN secrets
        /\ MapGet(secrets[CreateKey(p)].Data, "ca") = OldCA
        /\ result[p].msg = "failed to get secret"
        /\ WriteCalls(p) = {}

\* The step in which create calls SaveCertsToSecret.
SaveStep(p) == pc[p] = "createSave" /\ pc'[p] = "done"

\* C17: a call of SaveCertsToSecret for a name and namespace where a secret
\* exists returns the create error and leaves every secret as it is; a call
\* where none exists and that returns no error adds the one secret of that
\* name and namespace, built from the arguments, and changes no other; a
\* call that returns an error changes nothing.
C17_SaveHasCreateSemantics ==
    [][\A p \in Procs :
          SaveStep(p)
          => LET k == CreateKey(p)
                 c == cfg[p].flags
             IN  /\ k \in DOMAIN secrets
                    => /\ secrets' = secrets
                       /\ result'[p] = Err("failed to save certs to secret", "error creating secret")
                 /\ IsErr(result'[p]) => secrets' = secrets
                 /\ (k \notin DOMAIN secrets /\ ~IsErr(result'[p]))
                    => /\ DOMAIN secrets' = (DOMAIN secrets) \cup {k}
                       /\ \A x \in DOMAIN secrets : secrets'[x] = secrets[x]
                       /\ secrets'[k] = NewSecret(c.secretType, c.certName, c.keyName,
                                                  loc[p].ca, loc[p].cert, loc[p].key)]_vars

\* SaveCertsToSecret met a secret that was created after the Get of this
\* invocation: it returned the error and the secret is the other client's.
C17_Witness ==
    \E p \in Procs :
        /\ Failed(p) /\ IsCreate(p)
        /\ result[p] = Err("failed to save certs to secret", "error creating secret")
        /\ LastCall(p).verb = "create"
        /\ CreateKey(p) \notin DOMAIN pre[p].secrets
        /\ CreateKey(p) \in DOMAIN secrets
        /\ secrets[CreateKey(p)] = NewSecret("Opaque", "cert", "key", ForeignCA, <<"cert", 99>>, <<"key", 99>>)

\* SaveCertsToSecret met no secret and created one.
C17_WitnessCreated ==
    \E p \in Procs :
        /\ Succeeded(p) /\ IsCreate(p) /\ branch[p] = "creating new secret"
        /\ CreateKey(p) \notin DOMAIN pre[p].secrets
        /\ DOMAIN secrets = (DOMAIN pre[p].secrets) \cup {CreateKey(p)}
        /\ Cardinality(DOMAIN secrets) = Cardinality(DOMAIN pre[p].secrets) + 1

\* C18: the secret a successful create has written holds three entries,
\* "ca.crt" with the CA certificate, the cert-field name with the leaf
\* certificate and the key-field name with the leaf key, each non-empty and
\* all of one GenerateCerts call, whatever the two configured names are.
C18_SecretHoldsThreeEntries ==
    \A p \in Procs :
        (Succeeded(p) /\ IsCreate(p) /\ branch[p] = "creating new secret")
        => LET c == cfg[p].flags
               data == secrets[CreateKey(p)].Data
           IN  /\ Cardinality(DOMAIN data) = 3
               /\ DOMAIN data = {"ca.crt", c.certName, c.keyName}
               /\ data["ca.crt"] = loc[p].ca /\ loc[p].ca # Nil
               /\ data[c.certName] = loc[p].cert /\ loc[p].cert # Nil
               /\ data[c.keyName] = loc[p].key /\ loc[p].key # Nil
               /\ pemDecode(loc[p].cert).Signature = pemDecode(loc[p].ca).PublicKey
               /\ pemDecode(loc[p].cert).PublicKey = pemDecode(loc[p].key).PublicKey

IsGenerate(p) == cfg[p].cmd = "GenerateCerts"

GenerateErrors == {GenerateError(failAt) : failAt \in GenerateFailPoints \ {0}}

\* C19: a call of GenerateCerts that returned an error, whichever step
\* failed, returned nil for ca, cert and key; a call that returned no error
\* returned three non-nil values.
C19_GenerateAllOrNothing ==
    \A p \in Procs :
        (IsGenerate(p) /\ pc[p] # "idle")
        => /\ loc[p].err # NoErr
              => /\ loc[p].err \in GenerateErrors
                 /\ loc[p].ca = Nil /\ loc[p].cert = Nil /\ loc[p].key = Nil
                 /\ Failed(p) /\ result[p].cause = loc[p].err
           /\ loc[p].err = NoErr
              => loc[p].ca # Nil /\ loc[p].cert # Nil /\ loc[p].key # Nil

\* The last fallible step, the signing of the leaf, failed.
C19_Witness ==
    \E p \in Procs :
        /\ IsGenerate(p) /\ Failed(p)
        /\ loc[p].err = "failed createLeaf certificate"
        /\ loc[p].ca = Nil /\ loc[p].cert = Nil /\ loc[p].key = Nil
        /\ cfg[p].flags.host = <<"h">>

C19_WitnessSuccess ==
    \E p \in Procs :
        /\ IsGenerate(p) /\ pc[p] = "handshake" /\ loc[p].err = NoErr
        /\ loc[p].ca # Nil /\ loc[p].cert # Nil /\ loc[p].key # Nil

\* A host name as the TLS client accepts it, and a list of such names and
\* IP literals.
validHostname(host) == Len(host) > 0 /\ \A i \in 1 .. Len(host) : host[i] = "h"

ValidHostList(hosts) == \A t \in Tokens(hosts) : IsIP(t) \/ validHostname(t)

\* C20: for a list of host names and IP literals, the material of a
\* successful GenerateCerts is such that the key belongs to the leaf, the
\* leaf verifies against the pool that holds the returned CA only, and the
\* leaf is valid for every token of the list; the handshake of a client that
\* asks for a token of the list succeeds.
C20_LeafVerifiesForEveryHost ==
    \A p \in Procs :
        (IsGenerate(p) /\ pc[p] # "idle" /\ loc[p].err = NoErr /\ ValidHostList(cfg[p].flags.host))
        => /\ X509KeyPair(loc[p].cert, loc[p].key)
           /\ VerifyChain(pemDecode(loc[p].cert), {pemDecode(loc[p].ca)})
           /\ \A t \in Tokens(cfg[p].flags.host) :
                 /\ VerifyHostname(pemDecode(loc[p].cert), t)
                 /\ Handshake(loc[p].ca, loc[p].cert, loc[p].key, t) = Ok
           /\ (Done(p) /\ opts[p].ServerName \in Tokens(cfg[p].flags.host)) => result[p] = Ok

\* The list "h,::" and a client that asks for the IP literal.
C20_Witness ==
    \E p \in Procs :
        /\ IsGenerate(p) /\ Succeeded(p)
        /\ cfg[p].flags.host = <<"h", ",", ":", ":">>
        /\ opts[p].ServerName = <<":", ":">>
        /\ pemDecode(loc[p].cert).DNSNames = <<<<"h">>>>
        /\ pemDecode(loc[p].cert).IPAddresses = <<<<":", ":">>>>

\* The separators of a host list and, for the i-th token, how many of the
\* tokens up to it are IP literals.
Separators(hosts) == {i \in 1 .. Len(hosts) : hosts[i] = ","}

IPsUpTo(tokens, i) == Cardinality({j \in 1 .. i : IsIP(tokens[j])})

\* C21: a list with n separators has n + 1 tokens; the i-th token is, when
\* it is an IP literal, the next element of the leaf's IP address list, and
\* otherwise, the empty token included, the next element of its DNS name
\* list as it stands; the two lists hold nothing else, and the CA has
\* neither names nor addresses.
C21_HostListPartition ==
    \A p \in Procs :
        (IsGenerate(p) /\ pc[p] # "idle" /\ loc[p].err = NoErr)
        => LET hosts == cfg[p].flags.host
               tokens == SplitSeq(hosts, ",")
               leaf == pemDecode(loc[p].cert)
           IN  /\ Len(tokens) = Cardinality(Separators(hosts)) + 1
               /\ Len(leaf.DNSNames) + Len(leaf.IPAddresses) = Len(tokens)
               /\ \A i \in 1 .. Len(tokens) :
                     IF IsIP(tokens[i])
                     THEN /\ IPsUpTo(tokens, i) <= Len(leaf.IPAddresses)
                          /\ leaf.IPAddresses[IPsUpTo(tokens, i)] = ParseIP(tokens[i]).ip
                     ELSE /\ i - IPsUpTo(tokens, i) <= Len(leaf.DNSNames)
                          /\ leaf.DNSNames[i - IPsUpTo(tokens, i)] = tokens[i]
               /\ \A i \in 1 .. Len(tokens) : \A k \in 1 .. Len(tokens[i]) : tokens[i][k] # ","
               /\ pemDecode(loc[p].ca).DNSNames = <<>>
               /\ pemDecode(loc[p].ca).IPAddresses = <<>>

\* The list ",::,": an empty token, an IP literal and an empty token.
C21_Witness ==
    \E p \in Procs :
        /\ IsGenerate(p) /\ pc[p] = "handshake" /\ loc[p].err = NoErr
        /\ cfg[p].flags.host = <<",", ":", ":", ",">>
        /\ pemDecode(loc[p].cert).DNSNames = <<<<>>, <<>>>>
        /\ pemDecode(loc[p].cert).IPAddresses = <<<<":", ":">>>>

\* C22: when a patch invocation has succeeded and the same invocation, run
\* again right after it, has succeeded too, every webhook configuration and
\* APIService is as the first run left it.
C22_PatchIdempotent ==
    (Succeeded(1) /\ IsPatch(1) /\ Succeeded(2) /\ IsPatch(2) /\ cfg[2] = cfg[1])
    => /\ vwc = pre[2].vwc
       /\ mwc = pre[2].mwc
       /\ apisvc = pre[2].apisvc
       /\ opts[2] = opts[1]

\* Both runs succeeded in update mode on all three targets, and the first
\* one changed each of them.
C22_Witness ==
    /\ Succeeded(1) /\ IsPatch(1) /\ Succeeded(2) /\ IsPatch(2)
    /\ cfg[2].flags.PatchMethod = "update" /\ cfg[2].flags.PatchFailurePolicy = "Fail"
    /\ opts[2].APIServiceName = "a"
    /\ opts[2].ValidatingWebhookConfigurationName = "w"
    /\ opts[2].MutatingWebhookConfigurationName = "w"
    /\ pre[2].vwc # pre[1].vwc /\ pre[2].mwc # pre[1].mwc /\ pre[2].apisvc # pre[1].apisvc
    /\ Len(calls[2]) = Len(calls[1])
    /\ vwc = pre[2].vwc

\* The entries after a patch with this CA and failure policy: each entry as
\* it was, but for caBundle and, when a policy is supplied, failurePolicy.
FrameKept(before, after, ca, failurePolicy) ==
    /\ Len(after) = Len(before)
    /\ \A i \in 1 .. Len(before) :
          /\ after[i].Name = before[i].Name
          /\ after[i].SideEffects = before[i].SideEffects
          /\ after[i].CABundle = ca
          /\ after[i].FailurePolicy = (IF failurePolicy # "" THEN failurePolicy ELSE before[i].FailurePolicy)
          /\ DOMAIN after[i] = DOMAIN before[i]

Generated(p) ==
    \/ loc[p] # NoLoc
    \/ result[p].msg \in {"failed to generate certs", "failed to save certs to secret"}
    \/ \E i \in 1 .. Len(calls[p]) : calls[p][i].verb = "create"

\* C24: a create invocation that generated certificates or called
\* SaveCertsToSecret did so after a GetCaFromSecret that found no secret,
\* and on the ErrNoSecret branch; one whose lookup returned another error,
\* the missing-field error included, returned "failed to get secret" having
\* generated nothing, called no write, and changed nothing.
C24_GenerateOnlyAfterErrNoSecret ==
    \A p \in Procs :
        IsCreate(p)
        => /\ Generated(p)
              => /\ branch[p] = "creating new secret"
                 /\ calls[p] # <<>> /\ calls[p][1] = Call("Secret", "get", cfg[p].flags.secretName)
                 /\ CreateKey(p) \notin DOMAIN pre[p].secrets
                 /\ \A i \in WriteCalls(p) : i > 1
           /\ (SawNoField(p) \/ SawClientError(p))
              => /\ Failed(p) /\ result[p].msg = "failed to get secret"
                 /\ ~Generated(p)
                 /\ WriteCalls(p) = {}
                 /\ ClusterUntouched(p)

\* The Get itself failed while a secret with the CA was there.
C24_Witness ==
    \E p \in Procs :
        /\ IsCreate(p) /\ Failed(p) /\ SawClientError(p)
        /\ CreateKey(p) \in DOMAIN secrets
        /\ MapGet(secrets[CreateKey(p)].Data, "ca.crt") = OldCA
        /\ Len(calls[p]) = 1 /\ loc[p] = NoLoc

\* The lookup found no secret: certificates were generated and saved.
C24_WitnessCreated ==
    \E p \in Procs :
        /\ IsCreate(p) /\ Succeeded(p) /\ Generated(p)
        /\ Len(calls[p]) = 2 /\ calls[p][2].verb = "create"

PreStoreOf(p, kind) ==
    IF kind = "ValidatingWebhookConfiguration" THEN pre[p].vwc ELSE pre[p].mwc

PatchingError(kind) ==
    IF kind = "ValidatingWebhookConfiguration"
    THEN "failed patching validating webhook"
    ELSE "failed patching mutating webhook"

\* Another client modified the configuration of this kind between the Get
\* and the Update of the run, and the run has issued its Update.
UpdatedAfterForeignModify(p, kind) ==
    branch[p] = kind /\ UpdatesOf(p, kind) # {}

\* C25 as stated: the Update the tool issues after another client modified
\* the configuration succeeds and stores the object the tool fetched and
\* mutated, so that the other client's modification is gone.
C25_UpdateLastWriterWins ==
    \A p \in Procs : \A kind \in WebhookKinds :
        UpdatedAfterForeignModify(p, kind)
        => /\ result[p].cause # PatchingError(kind)
           /\ StoreOf(kind)[getWebhookName(opts[p])]
                 = updated(p, PreStoreOf(p, kind)[getWebhookName(opts[p])])

\* C25 amended: the Update the tool issues after another client modified
\* the configuration is refused; the run ends there with the patching
\* error, no Apply follows for that kind, and the configuration is what
\* the other client wrote, without the tool's caBundle.
C25_UpdateConflicts ==
    \A p \in Procs : \A kind \in WebhookKinds :
        UpdatedAfterForeignModify(p, kind)
        => /\ Failed(p)
           /\ result[p].cause = PatchingError(kind)
           /\ LastCall(p) = Call(kind, "update", getWebhookName(opts[p]))
           /\ AppliesOf(p, kind) = {}
           /\ StoreOf(kind)[getWebhookName(opts[p])]
                 = ModifiedByOther(PreStoreOf(p, kind)[getWebhookName(opts[p])])

\* The mutating configuration was modified after its Get; the validating
\* one had been patched before.
C25_Witness ==
    \E p \in Procs :
        /\ UpdatedAfterForeignModify(p, "MutatingWebhookConfiguration")
        /\ Failed(p) /\ opts[p].PatchMethod = "update"
        /\ Targeted(p, "ValidatingWebhookConfiguration") /\ WebhooksPatched(p, vwc)
        /\ mwc["w"][1].SideEffects = "NoneOnDryRun"
        /\ mwc["w"][1].CABundle = pre[p].mwc["w"][1].CABundle

\* The secret invocation p passes to SaveCertsToSecret.
SecretOf(p) ==
    NewSecret(cfg[p].flags.secretType, cfg[p].flags.certName, cfg[p].flags.keyName,
              loc[p].ca, loc[p].cert, loc[p].key)

CalledCreate(p) == \E i \in 1 .. Len(calls[p]) : calls[p][i].verb = "create"

\* The invocation whose Create was accepted.
Won(p) == CalledCreate(p) /\ Succeeded(p)

\* C26: of two create invocations on one secret name and namespace, at most
\* one has its Create accepted; a secret that was not there before is, whole,
\* the one invocation's secret built from its GenerateCerts result, and stays
\* so; the invocation whose Create came second ends with "failed to save
\* certs to secret" and not with the "secret already exists" success.
C26_ConcurrentCreate ==
    \A p, q \in Procs :
        (p # q /\ pc[p] # "idle" /\ pc[q] # "idle")
        => /\ CreateKey(p) = CreateKey(q)
           /\ ~(Won(p) /\ Won(q))
           /\ Won(p) => secrets[CreateKey(p)] = SecretOf(p)
           /\ (CreateKey(p) \in DOMAIN secrets /\ CreateKey(p) \notin DOMAIN pre[1].secrets)
              => Won(p) \/ Won(q)
           /\ (Won(q) /\ CalledCreate(p) /\ Done(p))
              => /\ Failed(p)
                 /\ result[p].msg = "failed to save certs to secret"
                 /\ branch[p] = "creating new secret"

\* Both invocations saw no secret and called Create; one won, the other
\* ended in the save error, and the secret is the winner's.
C26_Witness ==
    \E p, q \in Procs :
        /\ p # q
        /\ branch[p] = "creating new secret" /\ branch[q] = "creating new secret"
        /\ Won(q) /\ CalledCreate(p) /\ Failed(p)
        /\ LastCall(p).verb = "create"
        /\ result[p].cause = "error creating secret"
        /\ loc[p].ca # loc[q].ca
        /\ secrets[CreateKey(p)] = SecretOf(q)

\* C27: a Patch that returned success has written at least one
\* ValidatingWebhookConfiguration, MutatingWebhookConfiguration or APIService
\* with the CA bundle, also when patch-validating or patch-mutating is true,
\* the webhook name is empty and no APIService is named.
C27_PatchNeverNoOp ==
    \A p \in Procs :
        (IsPatch(p) /\ Succeeded(p))
        => /\ WriteCalls(p) # {}
           /\ \/ opts[p].APIServiceName # "" /\ APIServicePatched(p)
              \/ Targeted(p, "ValidatingWebhookConfiguration") /\ WebhooksPatched(p, vwc)
              \/ Targeted(p, "MutatingWebhookConfiguration") /\ WebhooksPatched(p, mwc)

\* create p with the default names stored a new secret, and patch q with
\* the default --ca-name has got the answer of its lookup on that secret
\* from the cluster.
PatchedAfterCreate(p, q) ==
    /\ IsCreate(p) /\ Won(p)
    /\ cfg[p].flags.certName = "cert" /\ cfg[p].flags.keyName = "key"
    /\ IsPatch(q) /\ cfg[q].flags.CaName = "ca"
    /\ PatchKey(q) = CreateKey(p)
    /\ pc[q] \notin {"idle", "patchGetCa"}
    /\ PatchFlagError(cfg[q].flags) = NoErr
    /\ ~SawClientError(q)

====
